---- MODULE Spec2Model ----
(***************************************************************************)
(* EventEase backend: the registration / ticketing / notification workflow *)
(* over the relational store, as the FastAPI handlers and crud functions   *)
(* execute it.  Tables are sets of rows, NULL is 0, ids come from          *)
(* AUTO_INCREMENT counters.  A request is a little process: its pc walks   *)
(* through the handler's database statements, one commit per step.         *)
(***************************************************************************)
EXTENDS Integers, FiniteSets, Sequences, TLC

\* ---------------------------------------------------------------- bounds
MaxUsers == 2        \* user rows ever inserted
MaxEvents == 1       \* event rows ever inserted
MaxRegs == 2         \* registration rows ever inserted
MaxTickets == 2      \* ticket rows ever inserted
MaxNotifs == 7       \* notification rows ever inserted
NumEmails == 2       \* distinct e-mail addresses clients use
NumCodes == 2        \* distinct values uuid4() is seen to return
NumTitles == 2       \* distinct event titles clients send
MaxComments == 1     \* comment rows ever inserted
MaxBroadcast == 2    \* highest notification id a broadcast may write

NULL == 0
Emails == 1..NumEmails
Codes == 1..NumCodes
Titles == 1..NumTitles
Roles == {"attendee", "organizer", "admin"}
Slots == {1, 2}

VARIABLES
    users,          \* users table: id -> [email, role], and as history the
                    \* role of the INSERT (signup_role), which is the role a
                    \* token issued before any role change was issued under
    events,         \* events table: id -> [title, organizer_id]
    registrations,  \* registrations table: set of [id, user_id, event_id]
    tickets,        \* tickets table: set of [id, code, registration_id]
    notifications,  \* notifications table: set of [id, user_id, event_id, title, is_read]
    comments,       \* comments table: set of [id, user_id, event_id]
    files,          \* tickets/<code>.png files on disk
    nextId,         \* AUTO_INCREMENT counter per table
    req             \* per worker slot: the request it is running or ran last

db == <<users, events, registrations, tickets, notifications, comments, files, nextId>>
vars == <<users, events, registrations, tickets, notifications, comments, files,
          nextId, req>>

\* ------------------------------------------------------- request records
Idle ==
    [op |-> "none", pc |-> "done", uid |-> NULL, eid |-> NULL, tgt |-> NULL,
     role |-> "none", title |-> NULL, rid |-> NULL, code |-> NULL, todo |-> <<>>,
     made |-> 0, after |-> "none", new_role |-> "none", out |-> <<>>,
     email |-> NULL, tok |-> "none", status |-> 0, err |-> "none"]

\* the response: what stays of a request is whom it was from, what it was about,
\* what it made and how it ended
Finish(r, status, err) ==
    [r EXCEPT !.pc = "done", !.status = status, !.err = err,
              !.role = "none", !.title = NULL, !.todo = <<>>]

\* ---------------------------------------------------------------- queries
\* crud.get_user_by_email: the row with this e-mail (the column is unique)
get_user_by_email(em) == {u \in DOMAIN users : users[u].email = em}

\* crud.get_user_by_id / crud.get_event_by_id raise 404 when the row is absent
UserExists(u) == u \in DOMAIN users
EventExists(e) == e \in DOMAIN events

\* registrations of (user, event): the filter of register_for_event / cancel
RegsOf(u, e) == {r \in registrations : r.user_id = u /\ r.event_id = e}
\* registrations of an event: get_event_registrations / notify_event_participants
RegsOfEvent(e) == {r \in registrations : r.event_id = e}
RegsOfUser(u) == {r \in registrations : r.user_id = u}

\* a set of rows as the sequence a SELECT returns them in (primary key order)
RECURSIVE ById(_)
ById(S) ==
    IF S = {} THEN <<>>
    ELSE LET m == CHOOSE x \in S : \A y \in S : x.id <= y.id
         IN <<m>> \o ById(S \ {m})

\* ------------------------------------------------------ ORM unit of work
\* Registration.ticket has no delete cascade: deleting registrations makes the
\* session set registration_id of their tickets to NULL; the ticket rows stay.
TicketsAfterDelete(D) ==
    {IF t.registration_id \in {r.id : r \in D}
        THEN [t EXCEPT !.registration_id = NULL] ELSE t : t \in tickets}

\* Event.registrations / Event.notifications: cascade "all, delete-orphan"
\* rows that go away with event e
EventCascadeRegs(e) == RegsOfEvent(e)
EventCascadeNotifs(e) == {n \in notifications : n.event_id = e}

\* User.registrations / User.notifications: cascade "all, delete-orphan"
UserCascadeRegs(u) == RegsOfUser(u)
UserCascadeNotifs(u) == {n \in notifications : n.user_id = u}

\* Event.comments without the delete cascade
EventCascadeComments_None(e) == {}

\* Event.comments: cascade "all, delete-orphan"
EventCascadeComments(e) == {c \in comments : c.event_id = e}

\* User.comments without the delete cascade
UserCascadeComments_None(u) == {}

\* User.comments: cascade "all, delete-orphan"
UserCascadeComments(u) == {c \in comments : c.user_id = u}

\* User.events has no delete cascade: the organizer_id of the user's events
\* is set to NULL and the events stay
EventsAfterUserDelete(u) ==
    [e \in DOMAIN events |->
        IF events[e].organizer_id = u
            THEN [events[e] EXCEPT !.organizer_id = NULL] ELSE events[e]]

\* db.delete(event); db.commit()
DeleteEventRow(e) ==
    /\ events' = [x \in DOMAIN events \ {e} |-> events[x]]
    /\ registrations' = registrations \ EventCascadeRegs(e)
    /\ tickets' = TicketsAfterDelete(EventCascadeRegs(e))
    /\ notifications' = notifications \ EventCascadeNotifs(e)
    /\ comments' = comments \ EventCascadeComments(e)
    /\ UNCHANGED <<users, files, nextId>>

\* db.delete(user); db.commit()
DeleteUserRow(u) ==
    /\ users' = [x \in DOMAIN users \ {u} |-> users[x]]
    /\ events' = EventsAfterUserDelete(u)
    /\ registrations' = registrations \ UserCascadeRegs(u)
    /\ tickets' = TicketsAfterDelete(UserCascadeRegs(u))
    /\ notifications' = notifications \ UserCascadeNotifs(u)
    /\ comments' = comments \ UserCascadeComments(u)
    /\ UNCHANGED <<files, nextId>>

\* -------------------------------------------------------- crud decisions
\* register_for_event with the duplicate check left out
register_for_event_error_NoDuplicateCheck(u, e) ==
    IF ~UserExists(u) THEN "UserNotFoundError"
    ELSE IF ~EventExists(e) THEN "EventNotFoundError"
    ELSE "none"

\* register_for_event with the event lookup left out
register_for_event_error_NoEventCheck(u, e) ==
    IF ~UserExists(u) THEN "UserNotFoundError"
    ELSE IF RegsOf(u, e) # {} THEN "AlreadyRegisteredError"
    ELSE "none"

\* register_for_event before its INSERT: the error it raises, or "none"
register_for_event_error(u, e) ==
    IF ~UserExists(u) THEN "UserNotFoundError"
    ELSE IF ~EventExists(e) THEN "EventNotFoundError"
    ELSE IF RegsOf(u, e) # {} THEN "AlreadyRegisteredError"
    ELSE "none"

\* the status code each exception class is answered with (exceptions.py, main.py)
StatusOf(err) ==
    CASE err \in {"UserNotFoundError", "EventNotFoundError"} -> 404
      [] err \in {"AlreadyRegisteredError", "UserAlreadyExistsError", "IntegrityError"} -> 409
      [] err = "UnauthorizedError" -> 403
      [] OTHER -> 500

\* crud.cancel_registration with a query that filters on the event alone
cancel_registration_query_AnyUser(u, e) == RegsOfEvent(e)

\* crud.cancel_registration: the rows its query matches
cancel_registration_query(u, e) == RegsOf(u, e)

\* crud.cancel_registration without the db.delete(reg)
RegistrationsAfterCancel_NoDelete(reg) == registrations

\* crud.cancel_registration: db.delete(reg); db.commit()
RegistrationsAfterCancel(reg) == registrations \ {reg}

\* tickets.code without its unique index
ticket_code_taken_NoIndex(c) == FALSE

\* the unique index on tickets.code rejects an INSERT of a code already stored
ticket_code_taken(c) == \E t \in tickets : t.code = c

\* uuid.uuid4(): a value some ticket already carries, or a new one.  New values
\* are interchangeable, so the least unseen one stands for all of them.
Min(S) == CHOOSE x \in S : \A y \in S : x <= y
SeenCodes == {t.code : t \in tickets}
uuid4 ==
    SeenCodes \cup (IF Codes \ SeenCodes = {} THEN {} ELSE {Min(Codes \ SeenCodes)})

\* notify_event_participants without the exclude_user_id test
excluded_Never(reg, exclude_user_id) == FALSE

\* notify_event_participants: "if exclude_user_id and registration.user_id == exclude_user_id"
excluded(reg, exclude_user_id) ==
    exclude_user_id # NULL /\ reg.user_id = exclude_user_id

\* create_notification: the error it raises for (user_id, event_id), or "none"
create_notification_error(u, e) ==
    IF ~UserExists(u) THEN "UserNotFoundError"
    ELSE IF e # NULL /\ ~EventExists(e) THEN "EventNotFoundError"
    ELSE "none"

\* create_notification with rows that are inserted as read
NewNotification_Read(u, e, t) ==
    [id |-> nextId.notif, user_id |-> u, event_id |-> e, title |-> t, is_read |-> TRUE]

\* create_notification: the row it inserts (is_read takes the column default)
NewNotification(u, e, t) ==
    [id |-> nextId.notif, user_id |-> u, event_id |-> e, title |-> t, is_read |-> FALSE]

\* create_notification as one step of request slot s: raises (404) or inserts
\* a row and moves on to pc `next` (finishing with 200 when next is "done")
create_notification(s, u, e, t, next) ==
    LET r == req[s]  err == create_notification_error(u, e) IN
    IF err # "none"
    THEN /\ req' = [req EXCEPT ![s] = Finish(r, 404, err)]
         /\ UNCHANGED db
    ELSE /\ notifications' = notifications \cup {NewNotification(u, e, t)}
         /\ nextId' = [nextId EXCEPT !.notif = @ + 1]
         /\ req' = [req EXCEPT ![s] =
                IF next = "done" THEN Finish([r EXCEPT !.made = @ + 1], 200, "none")
                ELSE [r EXCEPT !.pc = next, !.made = @ + 1]]
         /\ UNCHANGED <<users, events, registrations, tickets, files, comments>>

\* events.create_event without the role test
can_create_event_AnyRole(role) == TRUE

\* events.create_event: "if current_user.role not in ["organizer", "admin"]" -> 403
can_create_event(role) == role \in {"organizer", "admin"}

\* crud.update_event / crud.delete_event without the ownership test
is_organizer_Anyone(e, u) == TRUE

\* crud.update_event / crud.delete_event: "if event.organizer_id != user_id" -> 403
is_organizer(e, u) == events[e].organizer_id = u

\* the unread notifications of a user: the filter of
\* get_unread_notification_count and mark_all_notifications_as_read
Unread(u) == {n \in notifications : n.user_id = u /\ ~n.is_read}

\* crud.get_unread_notification_count: the count() of that filter
get_unread_notification_count(u) == Cardinality(Unread(u))

\* mark_all_notifications_as_read without the user_id filter
mark_all_query_AllUsers(u) == {n \in notifications : ~n.is_read}

\* mark_all_notifications_as_read with an update that matches no row
mark_all_query_NoRow(u) == {}

\* crud.mark_all_notifications_as_read: the rows its update() matches
mark_all_query(u) == Unread(u)

\* mark_notification_as_read without the user_id filter
mark_notification_query_AnyUser(n_id, u) == {n \in notifications : n.id = n_id}

\* crud.mark_notification_as_read: the rows with this id that belong to the user
mark_notification_query(n_id, u) ==
    {n \in notifications : n.id = n_id /\ n.user_id = u}

\* an update that flips is_read of the rows of S instead of setting it
MarkedRead_Toggle(S) ==
    {IF n \in S THEN [n EXCEPT !.is_read = ~@] ELSE n : n \in notifications}

\* the notifications table after is_read = True is written to the rows of S
MarkedRead(S) ==
    {IF n \in S THEN [n EXCEPT !.is_read = TRUE] ELSE n : n \in notifications}

\* admin.change_role takes new_role as an unconstrained str query parameter
RoleInputs == Roles \cup {"superuser"}

\* Registration.ticket (uselist=False): the ticket row of a registration
TicketOf(reg) == {t \in tickets : t.registration_id = reg.id}

\* get_event_attendees with the ticket left out of each entry
ticket_code_None(reg) == NULL

\* get_event_attendees: "reg.ticket.code if reg.ticket else None"
ticket_code(reg) ==
    IF TicketOf(reg) = {} THEN NULL
    ELSE (CHOOSE t \in TicketOf(reg) : \A o \in TicketOf(reg) : t.id <= o.id).code

\* get_event_attendees: the entry of one registration
AttendeeEntry(reg) ==
    [id |-> reg.user_id, email |-> users[reg.user_id].email, ticket |-> ticket_code(reg)]

\* get_event_attendees: the list built from event.registrations
attendees(e) ==
    LET regs == ById(RegsOfEvent(e))
    IN [i \in 1..Len(regs) |-> AttendeeEntry(regs[i])]

\* register_event with the two notifications written right after the
\* registration, before the ticket and its image
register_event_next_NotifyFirst(pc) ==
    CASE pc = "reg_check" -> "reg_insert"
      [] pc = "reg_insert" -> "reg_notify_user"
      [] pc = "reg_notify_user" -> "reg_notify_org"
      [] pc = "reg_notify_org" -> "reg_ticket"
      [] pc = "reg_ticket" -> "reg_qr"
      [] pc = "reg_qr" -> "done"

\* register_event and register_for_event: the statement that follows each
\* statement when it does not raise
register_event_next(pc) ==
    CASE pc = "reg_check" -> "reg_insert"
      [] pc = "reg_insert" -> "reg_ticket"
      [] pc = "reg_ticket" -> "reg_qr"
      [] pc = "reg_qr" -> "reg_notify_user"
      [] pc = "reg_notify_user" -> "reg_notify_org"
      [] pc = "reg_notify_org" -> "done"

\* the request after a statement that did not raise: at the next statement,
\* or answered 200 when that was the last one
Advance(r, next) ==
    IF next = "done" THEN Finish(r, 200, "none") ELSE [r EXCEPT !.pc = next]

\* interactions.delete_comment without the author-or-admin test
can_delete_comment_Anyone(c, u, role) == TRUE

\* interactions.delete_comment: 403 when
\* "comment.user_id != current_user.id and current_user.role != "admin""
can_delete_comment(c, u, role) == c.user_id = u \/ role = "admin"

\* users.email without the unique index
email_taken_NoIndex(em) == FALSE

\* the unique index on users.email: an INSERT of this e-mail raises IntegrityError
email_taken(em) == \E u \in DOMAIN users : users[u].email = em

\* ------------------------------------------------------------ scheduling
\* rows a handler may insert per table
NeedRegs(op) == IF op = "register" THEN 1 ELSE 0
NeedNotifs(op, e) ==
    CASE op \in {"register", "cancel"} -> 2
      [] op \in {"create_event", "create_comment"} -> 1
      [] op = "update_event" -> Cardinality(RegsOfEvent(e))
      [] op = "broadcast" -> Cardinality(DOMAIN users)
      [] OTHER -> 0

InFlight(s) == req[s].pc # "done"

\* the id space has room for what the new request and the running ones insert
Room(s, op, e) ==
    LET others == {o \in Slots \ {s} : InFlight(o)} 
        k == Cardinality(others) IN
    /\ nextId.reg + NeedRegs(op) + k <= MaxRegs + 1
    /\ nextId.ticket + NeedRegs(op) + k <= MaxTickets + 1
    /\ nextId.notif + NeedNotifs(op, e) + 2 * k <= MaxNotifs + 1
    /\ op = "create_event" => nextId.event <= MaxEvents
    /\ op = "create_comment" => nextId.comment <= MaxComments

\* slot 1 takes a request when nothing is running; slot 2 only takes one
\* register request, to run against a register request that slot 1 is running
CanStart(s, op) ==
    IF s = 1 THEN \A o \in Slots : ~InFlight(o)
    ELSE /\ op = "register"
         /\ req[1].op = "register" /\ InFlight(1)
         /\ req[s] = Idle

\* what the request r of slot s comes right after: the operation that slot 1
\* completed last, when it succeeded for the same user and event
After(s, r) ==
    IF s = 1 /\ req[1].status = 200 /\ req[1].uid = r.uid /\ req[1].eid = r.eid
    THEN req[1].op ELSE "none"

Begin(s, r) ==
    req' = IF s = 1 THEN [o \in Slots |-> IF o = 1 THEN [r EXCEPT !.after = After(s, r)]
                                          ELSE Idle]
           ELSE [req EXCEPT ![s] = r]

FirstPc(op) ==
    CASE op = "register" -> "reg_check"
      [] op = "cancel" -> "can_delete"
      [] op = "create_event" -> "ce_insert"
      [] op = "update_event" -> "ue_update"
      [] op = "delete_event" -> "de_delete"
      [] op = "admin_delete_user" -> "adu_delete"
      [] op = "admin_delete_event" -> "ade_delete"
      [] op = "change_role" -> "cr_set"
      [] op = "unread_count" -> "nc_count"
      [] op = "mark_read" -> "mr_mark"
      [] op = "read_all" -> "ra_mark"
      [] op = "create_comment" -> "cc_insert"
      [] op = "attendees" -> "at_list"
      [] op = "delete_comment" -> "dc_delete"
      [] op = "broadcast" -> "bc_query"

\* the admin routes with require_admin left off the role route
AdminOps_NoChangeRole == {"admin_delete_user", "admin_delete_event"}

\* the routes that depend on require_admin: 403 unless the caller is an admin
AdminOps == {"admin_delete_user", "admin_delete_event", "change_role"}

\* authorization by the role the user had when the row was inserted
current_role_AtSignup(u) == users[u].signup_role

\* current_user.role: get_current_user returns the users row as the request
\* finds it, so the role tests of the handlers read the stored role
current_role(u) == users[u].role

\* what a request carries as its bearer token: no Authorization header, a
\* token that jwt.decode rejects (forged, garbled or expired), or a token it
\* accepts, whose payload names an e-mail in "sub" or has no "sub"
BadTokens ==
    {[kind |-> "absent", sub |-> NULL], [kind |-> "valid", sub |-> NULL]}
        \cup {[kind |-> "invalid", sub |-> em] : em \in Emails}
ValidToken(em) == [kind |-> "valid", sub |-> em]

\* get_current_user that takes the e-mail of any token, whatever jwt.decode says
token_email_Unverified(tok) == tok.sub

\* get_current_user up to the user lookup: the e-mail it looks up, or NULL
\* when it raises 401 before (OAuth2PasswordBearer without a header, JWTError,
\* payload without "sub")
token_email(tok) == IF tok.kind = "valid" THEN tok.sub ELSE NULL

\* get_current_user (and require_admin for the admin routes), then the handler.
\* The request keeps the kind of its token and the e-mail the token names
StartToken(s, r0, tok) ==
    /\ CanStart(s, r0.op)
    /\ Room(s, r0.op, r0.eid)
    /\ LET em == token_email(tok)
           cu == IF em = NULL THEN {} ELSE get_user_by_email(em)
       IN IF cu = {}
          THEN Begin(s, Finish([r0 EXCEPT !.tok = tok.kind, !.email = tok.sub],
                               401, "HTTPException"))
          ELSE LET u == CHOOSE x \in cu : TRUE
                   r1 == [r0 EXCEPT !.uid = u, !.role = current_role(u),
                                    !.tok = tok.kind, !.email = tok.sub]
               IN IF r0.op \in AdminOps /\ current_role(u) # "admin"
                  THEN Begin(s, Finish(r1, 403, "HTTPException"))
                  ELSE Begin(s, [r1 EXCEPT !.pc = FirstPc(r0.op)])
    /\ UNCHANGED db

\* a request with the token that a login of e-mail em was given
StartWith(s, r0, em) == StartToken(s, r0, ValidToken(em))

StartRequest(s, op, em, e, tgt, title) ==
    StartWith(s, [Idle EXCEPT !.op = op, !.eid = e, !.tgt = tgt, !.title = title], em)

\* ---------------------------------------------------------------- Init
Init ==
    /\ users = << >>
    /\ events = << >>
    /\ registrations = {}
    /\ tickets = {}
    /\ notifications = {}
    /\ comments = {}
    /\ files = {}
    /\ nextId = [user |-> 1, event |-> 1, reg |-> 1, ticket |-> 1, notif |-> 1,
                 comment |-> 1]
    /\ req = [s \in Slots |-> Idle]

\* ------------------------------------------------- POST /auth/register
\* e-mail addresses are interchangeable: they are numbered in the order in
\* which sign-ups first use them, so the k-th user row has one of the first k
SignupEmails == {em \in Emails : em <= nextId.user}

\* crud.create_user: 409 when the e-mail exists, else INSERT
Signup(s) ==
    \E em \in SignupEmails, role \in Roles :
        /\ CanStart(s, "signup")
        /\ nextId.user <= MaxUsers
        /\ LET r0 == [Idle EXCEPT !.op = "signup"] IN
           IF get_user_by_email(em) # {}
           THEN /\ Begin(s, Finish(r0, 409, "UserAlreadyExistsError"))
                /\ UNCHANGED db
           ELSE /\ users' = [u \in DOMAIN users \cup {nextId.user} |->
                                IF u = nextId.user
                                THEN [email |-> em, role |-> role, signup_role |-> role]
                                ELSE users[u]]
                /\ nextId' = [nextId EXCEPT !.user = @ + 1]
                /\ Begin(s, Finish([r0 EXCEPT !.uid = nextId.user], 200, "none"))
                /\ UNCHANGED <<events, registrations, tickets, notifications, files, comments>>

\* POST /auth/register statement by statement, for sign-ups that overlap:
\* slot 2 may run one while slot 1 runs one
CanStartCreateUser(s) ==
    /\ IF s = 1 THEN \A o \in Slots : ~InFlight(o)
       ELSE req[1].op = "create_user" /\ InFlight(1) /\ req[s] = Idle
    /\ nextId.user + Cardinality({o \in Slots \ {s} : InFlight(o)}) <= MaxUsers

StartCreateUser(s) ==
    \E em \in SignupEmails, role \in Roles :
        /\ CanStartCreateUser(s)
        /\ Begin(s, [Idle EXCEPT !.op = "create_user", !.pc = "cu_check",
                                 !.email = em, !.role = role])
        /\ UNCHANGED db

\* crud.create_user: "existing_user = get_user_by_email(db, email)"
CuCheck(s) ==
    LET r == req[s] IN
    /\ r.pc = "cu_check"
    /\ req' = [req EXCEPT ![s] =
            IF get_user_by_email(r.email) # {}
            THEN Finish(r, 409, "UserAlreadyExistsError")
            ELSE [r EXCEPT !.pc = "cu_insert"]]
    /\ UNCHANGED db

\* crud.create_user: db.add; db.commit, and the except IntegrityError branch
CuInsert(s) ==
    LET r == req[s] IN
    /\ r.pc = "cu_insert"
    /\ IF email_taken(r.email)
       THEN /\ req' = [req EXCEPT ![s] = Finish(r, 409, "UserAlreadyExistsError")]
            /\ UNCHANGED db
       ELSE /\ users' = [u \in DOMAIN users \cup {nextId.user} |->
                            IF u = nextId.user
                            THEN [email |-> r.email, role |-> r.role,
                                  signup_role |-> r.role]
                            ELSE users[u]]
            /\ nextId' = [nextId EXCEPT !.user = @ + 1]
            /\ req' = [req EXCEPT ![s] = Finish([r EXCEPT !.uid = nextId.user], 200, "none")]
            /\ UNCHANGED <<events, registrations, tickets, notifications, files, comments>>

\* the routes that depend on get_current_user
ProtectedOps ==
    {"register", "cancel", "create_event", "update_event", "delete_event",
     "admin_delete_user", "admin_delete_event", "change_role", "unread_count",
     "mark_read", "read_all", "create_comment", "attendees", "delete_comment",
     "broadcast"}

\* a request to a protected route without a token that names an e-mail
StartBadToken(s) ==
    \E op \in ProtectedOps, tok \in BadTokens :
        StartToken(s, [Idle EXCEPT !.op = op], tok)

\* --------------------------------------- POST /events/{event_id}/register
StartRegister(s) ==
    \E em \in Emails, e \in 1..MaxEvents :
        StartRequest(s, "register", em, e, NULL, NULL)

\* crud.register_for_event, up to the duplicate check
RegCheck(s) ==
    LET r == req[s] IN
    /\ r.pc = "reg_check"
    /\ LET err == register_for_event_error(r.uid, r.eid) IN
       req' = [req EXCEPT ![s] =
            IF err # "none" THEN Finish(r, StatusOf(err), err)
            ELSE Advance(r, register_event_next("reg_check"))]
    /\ UNCHANGED db

\* crud.register_for_event: db.add(registration); db.commit()
RegInsert(s) ==
    LET r == req[s] IN
    /\ r.pc = "reg_insert"
    /\ registrations' = registrations \cup
            {[id |-> nextId.reg, user_id |-> r.uid, event_id |-> r.eid]}
    /\ nextId' = [nextId EXCEPT !.reg = @ + 1]
    /\ req' = [req EXCEPT ![s] =
            Advance([r EXCEPT !.rid = nextId.reg], register_event_next("reg_insert"))]
    /\ UNCHANGED <<users, events, tickets, notifications, files, comments>>

\* register_event: get_event_by_id, then Ticket(code=uuid4()) added and committed
RegTicket(s) ==
    LET r == req[s] IN
    /\ r.pc = "reg_ticket"
    /\ IF ~EventExists(r.eid)
       THEN /\ req' = [req EXCEPT ![s] = Finish(r, 404, "EventNotFoundError")]
            /\ UNCHANGED db
       ELSE \E c \in uuid4 :
            IF ticket_code_taken(c)
            THEN /\ req' = [req EXCEPT ![s] = Finish(r, 409, "IntegrityError")]
                 /\ UNCHANGED db
            ELSE /\ tickets' = tickets \cup
                        {[id |-> nextId.ticket, code |-> c, registration_id |-> r.rid]}
                 /\ nextId' = [nextId EXCEPT !.ticket = @ + 1]
                 /\ req' = [req EXCEPT ![s] =
                        Advance([r EXCEPT !.code = c], register_event_next("reg_ticket"))]
                 /\ UNCHANGED <<users, events, registrations, notifications, files, comments>>

\* register_event: qrcode.make(code).save(path) writes the file or raises
RegQr(s) ==
    LET r == req[s] IN
    /\ r.pc = "reg_qr"
    /\ \/ /\ files' = files \cup {r.code}
          /\ req' = [req EXCEPT ![s] = Advance(r, register_event_next("reg_qr"))]
       \/ /\ files' = files
          /\ req' = [req EXCEPT ![s] = Finish(r, 500, "OSError")]
    /\ UNCHANGED <<users, events, registrations, tickets, notifications, nextId, comments>>

\* register_event: notification to the registrant
RegNotifyUser(s) ==
    /\ req[s].pc = "reg_notify_user"
    /\ create_notification(s, req[s].uid, req[s].eid, "Registration Successful",
                           register_event_next("reg_notify_user"))

\* register_event: notification to event.organizer_id, then the 200 response
RegNotifyOrg(s) ==
    /\ req[s].pc = "reg_notify_org"
    /\ IF ~EventExists(req[s].eid)
       THEN /\ req' = [req EXCEPT ![s] = Finish(req[s], 500, "ObjectDeletedError")]
            /\ UNCHANGED db
       ELSE create_notification(s, events[req[s].eid].organizer_id, req[s].eid,
                                "New Registration", register_event_next("reg_notify_org"))

\* ------------------------------------- DELETE /events/{event_id}/register
StartCancel(s) ==
    \E em \in Emails, e \in 1..MaxEvents :
        StartRequest(s, "cancel", em, e, NULL, NULL)

\* cancel_registration: get_event_by_id, then crud.cancel_registration
CanDelete(s) ==
    LET r == req[s] IN
    /\ r.pc = "can_delete"
    /\ IF ~EventExists(r.eid)
       THEN /\ req' = [req EXCEPT ![s] = Finish(r, 404, "EventNotFoundError")]
            /\ UNCHANGED db
       ELSE IF cancel_registration_query(r.uid, r.eid) = {}
       THEN /\ req' = [req EXCEPT ![s] = Finish(r, 404, "EventNotFoundError")]
            /\ UNCHANGED db
       ELSE \E reg \in cancel_registration_query(r.uid, r.eid) :
            /\ registrations' = RegistrationsAfterCancel(reg)
            /\ tickets' = TicketsAfterDelete({reg})
            /\ req' = [req EXCEPT ![s] = [r EXCEPT !.pc = "can_notify_user", !.rid = reg.id]]
            /\ UNCHANGED <<users, events, notifications, files, nextId, comments>>

CanNotifyUser(s) ==
    /\ req[s].pc = "can_notify_user"
    /\ create_notification(s, req[s].uid, req[s].eid, "Registration Cancelled",
                           "can_notify_org")

CanNotifyOrg(s) ==
    /\ req[s].pc = "can_notify_org"
    /\ IF ~EventExists(req[s].eid)
       THEN /\ req' = [req EXCEPT ![s] = Finish(req[s], 500, "ObjectDeletedError")]
            /\ UNCHANGED db
       ELSE create_notification(s, events[req[s].eid].organizer_id, req[s].eid,
                                "Registration Cancelled", "done")

\* ------------------------------------------------------------ POST /events
StartCreateEvent(s) ==
    \E em \in Emails, t \in Titles :
        StartRequest(s, "create_event", em, NULL, NULL, t)

\* create_event: the role check, then crud.create_event
CeInsert(s) ==
    LET r == req[s] IN
    /\ r.pc = "ce_insert"
    /\ IF ~can_create_event(r.role)
       THEN /\ req' = [req EXCEPT ![s] = Finish(r, 403, "HTTPException")]
            /\ UNCHANGED db
       ELSE IF ~UserExists(r.uid)
       THEN /\ req' = [req EXCEPT ![s] = Finish(r, 404, "UserNotFoundError")]
            /\ UNCHANGED db
       ELSE /\ events' = [e \in DOMAIN events \cup {nextId.event} |->
                            IF e = nextId.event
                            THEN [title |-> r.title, organizer_id |-> r.uid]
                            ELSE events[e]]
            /\ nextId' = [nextId EXCEPT !.event = @ + 1]
            /\ req' = [req EXCEPT ![s] = [r EXCEPT !.pc = "ce_notify", !.eid = nextId.event]]
            /\ UNCHANGED <<users, registrations, tickets, notifications, files, comments>>

CeNotify(s) ==
    /\ req[s].pc = "ce_notify"
    /\ create_notification(s, req[s].uid, req[s].eid, "Event Created Successfully", "done")

\* ------------------------------------------------- PUT /events/{event_id}
StartUpdateEvent(s) ==
    \E em \in Emails, e \in 1..MaxEvents, t \in Titles :
        StartRequest(s, "update_event", em, e, NULL, t)

\* crud.update_event
UeUpdate(s) ==
    LET r == req[s] IN
    /\ r.pc = "ue_update"
    /\ IF ~EventExists(r.eid)
       THEN /\ req' = [req EXCEPT ![s] = Finish(r, 404, "EventNotFoundError")]
            /\ UNCHANGED db
       ELSE IF ~is_organizer(r.eid, r.uid)
       THEN /\ req' = [req EXCEPT ![s] = Finish(r, 403, "UnauthorizedError")]
            /\ UNCHANGED db
       ELSE /\ events' = [events EXCEPT ![r.eid].title = r.title]
            /\ req' = [req EXCEPT ![s] = [r EXCEPT !.pc = "ue_query"]]
            /\ UNCHANGED <<users, registrations, tickets, notifications, files,
                           nextId, comments>>

\* notify_event_participants: the query for the event's registrations
UeQuery(s) ==
    LET r == req[s] IN
    /\ r.pc = "ue_query"
    /\ req' = [req EXCEPT ![s] =
                [r EXCEPT !.pc = "ue_notify", !.todo = ById(RegsOfEvent(r.eid))]]
    /\ UNCHANGED db

\* notify_event_participants: one iteration of the loop, or the return
UeNotify(s) ==
    LET r == req[s] IN
    /\ r.pc = "ue_notify"
    /\ IF r.todo = <<>>
       THEN /\ req' = [req EXCEPT ![s] = Finish(r, 200, "none")]
            /\ UNCHANGED db
       ELSE IF excluded(Head(r.todo), r.uid)
       THEN /\ req' = [req EXCEPT ![s] = [r EXCEPT !.todo = Tail(@)]]
            /\ UNCHANGED db
       ELSE LET err == create_notification_error(Head(r.todo).user_id, r.eid) IN
            IF err # "none"
            THEN /\ req' = [req EXCEPT ![s] = Finish(r, 404, err)]
                 /\ UNCHANGED db
            ELSE /\ notifications' = notifications \cup
                        {NewNotification(Head(r.todo).user_id, r.eid, "Event Updated")}
                 /\ nextId' = [nextId EXCEPT !.notif = @ + 1]
                 /\ req' = [req EXCEPT ![s] = [r EXCEPT !.todo = Tail(@), !.made = @ + 1]]
                 /\ UNCHANGED <<users, events, registrations, tickets, files, comments>>

\* ---------------------------------------------- DELETE /events/{event_id}
StartDeleteEvent(s) ==
    \E em \in Emails, e \in 1..MaxEvents :
        StartRequest(s, "delete_event", em, e, NULL, NULL)

\* crud.delete_event
DeDelete(s) ==
    LET r == req[s] IN
    /\ r.pc = "de_delete"
    /\ IF ~EventExists(r.eid)
       THEN /\ req' = [req EXCEPT ![s] = Finish(r, 404, "EventNotFoundError")]
            /\ UNCHANGED db
       ELSE IF ~is_organizer(r.eid, r.uid)
       THEN /\ req' = [req EXCEPT ![s] = Finish(r, 403, "UnauthorizedError")]
            /\ UNCHANGED db
       ELSE /\ DeleteEventRow(r.eid)
            /\ req' = [req EXCEPT ![s] = Finish(r, 200, "none")]
        
\* ---------------------------------------- DELETE /admin/users/{user_id}
StartAdminDeleteUser(s) ==
    \E em \in Emails, u \in 1..MaxUsers :
        StartRequest(s, "admin_delete_user", em, NULL, u, NULL)

AduDelete(s) ==
    LET r == req[s] IN
    /\ r.pc = "adu_delete"
    /\ IF ~UserExists(r.tgt)
       THEN /\ req' = [req EXCEPT ![s] = Finish(r, 404, "HTTPException")]
            /\ UNCHANGED db
       ELSE /\ DeleteUserRow(r.tgt)
            /\ req' = [req EXCEPT ![s] = Finish(r, 200, "none")]
        
\* --------------------------------------- DELETE /admin/events/{event_id}
StartAdminDeleteEvent(s) ==
    \E em \in Emails, e \in 1..MaxEvents :
        StartRequest(s, "admin_delete_event", em, e, NULL, NULL)

AdeDelete(s) ==
    LET r == req[s] IN
    /\ r.pc = "ade_delete"
    /\ IF ~EventExists(r.eid)
       THEN /\ req' = [req EXCEPT ![s] = Finish(r, 404, "HTTPException")]
            /\ UNCHANGED db
       ELSE /\ DeleteEventRow(r.eid)
            /\ req' = [req EXCEPT ![s] = Finish(r, 200, "none")]
        
\* ------------------------------------------------------- specifications
\* ------------------------------------- PUT /admin/users/{user_id}/role
StartChangeRole(s) ==
    \E em \in Emails, u \in 1..MaxUsers, nr \in RoleInputs :
        StartWith(s, [Idle EXCEPT !.op = "change_role", !.tgt = u, !.new_role = nr], em)

CrSet(s) ==
    LET r == req[s] IN
    /\ r.pc = "cr_set"
    /\ IF ~UserExists(r.tgt)
       THEN /\ req' = [req EXCEPT ![s] =
                        Finish([r EXCEPT !.new_role = "none"], 404, "HTTPException")]
            /\ UNCHANGED db
       ELSE /\ users' = [users EXCEPT ![r.tgt].role = r.new_role]
            /\ req' = [req EXCEPT ![s] =
                        Finish([r EXCEPT !.new_role = "none"], 200, "none")]
            /\ UNCHANGED <<events, registrations, tickets, notifications, files,
                           nextId, comments>>

\* ------------------------------- GET /interactions/notifications/count
StartUnreadCount(s) ==
    \E em \in Emails : StartRequest(s, "unread_count", em, NULL, NULL, NULL)

NcCount(s) ==
    LET r == req[s] IN
    /\ r.pc = "nc_count"
    /\ req' = [req EXCEPT ![s] =
            Finish([r EXCEPT !.out = <<get_unread_notification_count(r.uid)>>],
                   200, "none")]
    /\ UNCHANGED db

\* ------------- PATCH /interactions/notifications/{notification_id}/read
StartMarkRead(s) ==
    \E em \in Emails, n \in 1..MaxNotifs :
        StartRequest(s, "mark_read", em, NULL, n, NULL)

MrMark(s) ==
    LET r == req[s]  found == mark_notification_query(r.tgt, r.uid) IN
    /\ r.pc = "mr_mark"
    /\ IF found = {}
       THEN /\ req' = [req EXCEPT ![s] = Finish(r, 404, "HTTPException")]
            /\ UNCHANGED db
       ELSE /\ notifications' = MarkedRead(found)
            /\ req' = [req EXCEPT ![s] = Finish(r, 200, "none")]
            /\ UNCHANGED <<users, events, registrations, tickets, files, nextId,
                           comments>>

\* ------------------------ PATCH /interactions/notifications/read-all
StartReadAll(s) ==
    \E em \in Emails : StartRequest(s, "read_all", em, NULL, NULL, NULL)

RaMark(s) ==
    LET r == req[s] IN
    /\ r.pc = "ra_mark"
    /\ notifications' = MarkedRead(mark_all_query(r.uid))
    /\ req' = [req EXCEPT ![s] = Finish(r, 200, "none")]
    /\ UNCHANGED <<users, events, registrations, tickets, files, nextId, comments>>

\* ------------------------ POST /interactions/events/{event_id}/comments
StartCreateComment(s) ==
    \E em \in Emails, e \in 1..MaxEvents :
        StartRequest(s, "create_comment", em, e, NULL, NULL)

\* the route's event check, then crud.create_comment: its two checks and the
\* committed insert
CcInsert(s) ==
    LET r == req[s] IN
    /\ r.pc = "cc_insert"
    /\ IF ~EventExists(r.eid)
       THEN /\ req' = [req EXCEPT ![s] = Finish(r, 404, "HTTPException")]
            /\ UNCHANGED db
       ELSE IF ~UserExists(r.uid)
       THEN /\ req' = [req EXCEPT ![s] = Finish(r, 404, "UserNotFoundError")]
            /\ UNCHANGED db
       ELSE /\ comments' = comments \cup
                    {[id |-> nextId.comment, user_id |-> r.uid, event_id |-> r.eid]}
            /\ nextId' = [nextId EXCEPT !.comment = @ + 1]
            /\ req' = [req EXCEPT ![s] =
                    IF events[r.eid].organizer_id # r.uid
                    THEN [r EXCEPT !.pc = "cc_notify"]
                    ELSE Finish(r, 200, "none")]
            /\ UNCHANGED <<users, events, registrations, tickets, notifications, files>>

\* "if event.organizer_id != current_user.id": the notification to the organizer
CcNotify(s) ==
    /\ req[s].pc = "cc_notify"
    /\ IF ~EventExists(req[s].eid)
       THEN /\ req' = [req EXCEPT ![s] = Finish(req[s], 500, "ObjectDeletedError")]
            /\ UNCHANGED db
       ELSE create_notification(s, events[req[s].eid].organizer_id, req[s].eid,
                                "New Comment on Your Event", "done")

\* ------------------------ DELETE /interactions/comments/{comment_id}
StartDeleteComment(s) ==
    \E em \in Emails, c \in 1..MaxComments :
        StartRequest(s, "delete_comment", em, NULL, c, NULL)

\* get_comment_by_id (404), the author-or-admin test (403), then
\* crud.delete_comment called with the comment's own user_id: delete and commit
DcDelete(s) ==
    LET r == req[s]  found == {c \in comments : c.id = r.tgt} IN
    /\ r.pc = "dc_delete"
    /\ IF found = {}
       THEN /\ req' = [req EXCEPT ![s] = Finish(r, 404, "EventNotFoundError")]
            /\ UNCHANGED db
       ELSE IF \E c \in found : ~can_delete_comment(c, r.uid, r.role)
       THEN /\ req' = [req EXCEPT ![s] = Finish(r, 403, "HTTPException")]
            /\ UNCHANGED db
       ELSE /\ comments' = comments \ found
            /\ req' = [req EXCEPT ![s] = Finish(r, 200, "none")]
            /\ UNCHANGED <<users, events, registrations, tickets, notifications,
                           files, nextId>>

\* ------------------------ POST /interactions/notifications/broadcast
StartBroadcast(s) ==
    \E em \in Emails, e \in {NULL} \cup (1..MaxEvents) :
        /\ nextId.notif + Cardinality(DOMAIN users) <= MaxBroadcast + 1
        /\ StartRequest(s, "broadcast", em, e, NULL, NULL)

\* the role test of the handler, then "users = db.query(models.User).all()"
BcQuery(s) ==
    LET r == req[s] IN
    /\ r.pc = "bc_query"
    /\ req' = [req EXCEPT ![s] =
            IF r.role # "admin" THEN Finish(r, 403, "HTTPException")
            ELSE [r EXCEPT !.pc = "bc_notify",
                           !.todo = ById({[id |-> u] : u \in DOMAIN users})]]
    /\ UNCHANGED db

\* one iteration of the loop over the users, or the return
BcNotify(s) ==
    LET r == req[s] IN
    /\ r.pc = "bc_notify"
    /\ IF r.todo = <<>>
       THEN /\ req' = [req EXCEPT ![s] = Finish(r, 200, "none")]
            /\ UNCHANGED db
       ELSE LET err == create_notification_error(Head(r.todo).id, r.eid) IN
            IF err # "none"
            THEN /\ req' = [req EXCEPT ![s] = Finish(r, 404, err)]
                 /\ UNCHANGED db
            ELSE /\ notifications' = notifications \cup
                        {NewNotification(Head(r.todo).id, r.eid, "Broadcast")}
                 /\ nextId' = [nextId EXCEPT !.notif = @ + 1]
                 /\ req' = [req EXCEPT ![s] = [r EXCEPT !.todo = Tail(@), !.made = @ + 1]]
                 /\ UNCHANGED <<users, events, registrations, tickets, files, comments>>

\* ------------------------------------- GET /events/{event_id}/attendees
StartAttendees(s) ==
    \E em \in Emails, e \in 1..MaxEvents :
        StartRequest(s, "attendees", em, e, NULL, NULL)

AtList(s) ==
    LET r == req[s] IN
    /\ r.pc = "at_list"
    /\ req' = [req EXCEPT ![s] =
            IF ~EventExists(r.eid) THEN Finish(r, 404, "HTTPException")
            ELSE IF events[r.eid].organizer_id # r.uid
            THEN Finish(r, 403, "HTTPException")
            ELSE Finish([r EXCEPT !.out = attendees(r.eid)], 200, "none")]
    /\ UNCHANGED db

\* ------------------------------------------------ GET /events/{event_id}
\* the route takes no token: crud.get_event_by_id returns the row or raises
GetEvent(s) ==
    \E e \in 1..MaxEvents :
        /\ CanStart(s, "get_event")
        /\ Begin(s, IF EventExists(e)
                    THEN Finish([Idle EXCEPT !.op = "get_event", !.eid = e], 200, "none")
                    ELSE Finish([Idle EXCEPT !.op = "get_event", !.eid = e],
                                404, "EventNotFoundError"))
        /\ UNCHANGED db

Step(s) ==
    \/ Signup(s)
    \/ StartRegister(s) \/ RegCheck(s) \/ RegInsert(s) \/ RegTicket(s) \/ RegQr(s)
    \/ RegNotifyUser(s) \/ RegNotifyOrg(s)
    \/ StartCancel(s) \/ CanDelete(s) \/ CanNotifyUser(s) \/ CanNotifyOrg(s)
    \/ StartCreateEvent(s) \/ CeInsert(s) \/ CeNotify(s)
    \/ StartUpdateEvent(s) \/ UeUpdate(s) \/ UeQuery(s) \/ UeNotify(s)
    \/ StartDeleteEvent(s) \/ DeDelete(s)
    \/ StartAdminDeleteUser(s) \/ AduDelete(s)
    \/ StartAdminDeleteEvent(s) \/ AdeDelete(s)

\* requests run one at a time
Next == Step(1)
Spec == Init /\ [][Next]_vars

\* two register requests may run with their statements interleaved
NextRace == \E s \in Slots : Step(s)
SpecRace == Init /\ [][NextRace]_vars

\* sign-up and the event and registration routes that fill the inbox
CreateEventSteps(s) == StartCreateEvent(s) \/ CeInsert(s) \/ CeNotify(s)
RegisterSteps(s) ==
    \/ StartRegister(s) \/ RegCheck(s) \/ RegInsert(s) \/ RegTicket(s) \/ RegQr(s)
    \/ RegNotifyUser(s) \/ RegNotifyOrg(s)
CancelSteps(s) ==
    StartCancel(s) \/ CanDelete(s) \/ CanNotifyUser(s) \/ CanNotifyOrg(s)

\* the notification inbox: requests that create notifications, then the
\* three inbox routes, one request at a time
NextInbox ==
    \/ Signup(1) \/ CreateEventSteps(1) \/ RegisterSteps(1)
    \/ StartUnreadCount(1) \/ NcCount(1)
    \/ StartMarkRead(1) \/ MrMark(1)
    \/ StartReadAll(1) \/ RaMark(1)
SpecInbox == Init /\ [][NextInbox]_vars

\* roles: sign-up, the admin role route and the routes that roles gate
NextRoles ==
    \/ Signup(1) \/ StartChangeRole(1) \/ CrSet(1)
    \/ CreateEventSteps(1)
    \/ StartAdminDeleteUser(1) \/ AduDelete(1)
SpecRoles == Init /\ [][NextRoles]_vars

\* deletion: every table filled, then users and events deleted and the
\* event looked up again
NextCascade ==
    \/ Signup(1) \/ CreateEventSteps(1) \/ RegisterSteps(1) \/ CancelSteps(1)
    \/ StartCreateComment(1) \/ CcInsert(1) \/ CcNotify(1)
    \/ StartDeleteEvent(1) \/ DeDelete(1)
    \/ StartAdminDeleteUser(1) \/ AduDelete(1)
    \/ StartAdminDeleteEvent(1) \/ AdeDelete(1)
    \/ GetEvent(1)
SpecCascade == Init /\ [][NextCascade]_vars

\* the attendee list: registrations made and cancelled, then listed
NextAttendees ==
    \/ Signup(1) \/ CreateEventSteps(1) \/ RegisterSteps(1) \/ CancelSteps(1)
    \/ StartAttendees(1) \/ AtList(1)
SpecAttendees == Init /\ [][NextAttendees]_vars

\* sign-ups whose statements interleave
CreateUserSteps(s) == StartCreateUser(s) \/ CuCheck(s) \/ CuInsert(s)
NextSignupRace == \E s \in Slots : CreateUserSteps(s)
SpecSignupRace == Init /\ [][NextSignupRace]_vars

\* comments written and deleted through the comment routes
CreateCommentSteps(s) == StartCreateComment(s) \/ CcInsert(s) \/ CcNotify(s)
NextComments ==
    \/ Signup(1) \/ CreateEventSteps(1) \/ CreateCommentSteps(1)
    \/ StartDeleteComment(1) \/ DcDelete(1)
SpecComments == Init /\ [][NextComments]_vars

\* the life of a notification: every way one is written besides
\* registration, the two routes that mark it, and the deletions that cascade
NextNotifications ==
    \/ Signup(1) \/ CreateEventSteps(1) \/ CreateCommentSteps(1)
    \/ StartBroadcast(1) \/ BcQuery(1) \/ BcNotify(1)
    \/ StartMarkRead(1) \/ MrMark(1)
    \/ StartReadAll(1) \/ RaMark(1)
    \/ StartAdminDeleteUser(1) \/ AduDelete(1)
    \/ StartDeleteEvent(1) \/ DeDelete(1)
    \/ StartAdminDeleteEvent(1) \/ AdeDelete(1)
SpecNotifications == Init /\ [][NextNotifications]_vars

\* authentication: tokens of every kind, users signed up and deleted
NextAuth ==
    \/ Signup(1) \/ StartBadToken(1) \/ CreateEventSteps(1)
    \/ StartReadAll(1) \/ RaMark(1)
    \/ StartAdminDeleteUser(1) \/ AduDelete(1)
SpecAuth == Init /\ [][NextAuth]_vars

\* ================================================================ claims
IsDone(s, op) == req[s].op = op /\ req[s].pc = "done"

\* no (user, event) pair has two registration rows
NoDuplicateRegs ==
    \A r1 \in registrations, r2 \in registrations :
        (r1.user_id = r2.user_id /\ r1.event_id = r2.event_id) => r1 = r2

\* a register request that reaches its duplicate check while a registration
\* of its pair is live ends there with 409 AlreadyRegisteredError and leaves
\* the tables alone
RegisterWhileLiveFails ==
    (req[1].op = "register" /\ req[1].pc = "reg_check"
        /\ RegsOf(req[1].uid, req[1].eid) # {})
    => /\ req'[1].pc = "done"
       /\ req'[1].status = 409
       /\ req'[1].err = "AlreadyRegisteredError"
       /\ UNCHANGED db

\* C1: with requests run one at a time, at most one Registration exists for
\* any (user, event) pair in every reachable state, and a register(u, e)
\* issued while a registration for (u, e) is live fails with 409 Conflict.
C1_OneRegistrationPerPair ==
    [](NoDuplicateRegs) /\ [][RegisterWhileLiveFails]_vars

\* a second register for a live pair has been answered 409
C1_Witness ==
    /\ IsDone(1, "register")
    /\ req[1].status = 409 /\ req[1].err = "AlreadyRegisteredError"
    /\ req[1].after = "register"
    /\ Cardinality(RegsOf(req[1].uid, req[1].eid)) = 1

\* tickets of the registrations of one (user, event) pair
TicketsOfPair(u, e) ==
    {t \in tickets : \E r \in RegsOf(u, e) : t.registration_id = r.id}

\* both slots ran a register request for the same pair, side by side, and
\* both were let through to the handler (no 401) for an event that exists
RacedRegisters ==
    /\ IsDone(1, "register") /\ IsDone(2, "register")
    /\ req[1].uid # NULL /\ req[1].uid = req[2].uid /\ req[1].eid = req[2].eid
    /\ EventExists(req[1].eid)

\* C2: when two register requests for the same (user, event) pair run with
\* their steps interleaved, at least one of them fails with AlreadyRegistered
\* and the pair never has two registrations or two tickets.
C2_RaceOneFails ==
    /\ NoDuplicateRegs
    /\ \A u \in DOMAIN users, e \in DOMAIN events : Cardinality(TicketsOfPair(u, e)) <= 1
    /\ RacedRegisters =>
          \E s \in Slots : req[s].err = "AlreadyRegisteredError"

\* the register request of slot 1 ended because the QR image was not written
QrWriteFailed == IsDone(1, "register") /\ req[1].err = "OSError"

\* C3: if the ticket artifact (QR image) cannot be written during a register
\* request, neither the Registration row nor the Ticket row of that attempt
\* remains afterwards.
C3_ArtifactFailureRollsBack ==
    QrWriteFailed =>
        /\ \A r \in registrations : r.id # req[1].rid
        /\ \A t \in tickets : t.code # req[1].code /\ t.registration_id # req[1].rid

\* the register request of slot 1 committed its registration and its ticket
\* and wrote the image: all that is left to it are the two notifications
RegisterCommitted ==
    /\ IsDone(1, "register")
    /\ req[1].rid # NULL /\ req[1].code # NULL /\ req[1].err # "OSError"

\* C4: a register request whose registration and ticket have been committed
\* returns success even when writing the registrant's or the organizer's
\* notification fails; the notification failure is never surfaced.
C4_NotificationFailureSwallowed ==
    RegisterCommitted => req[1].status = 200

\* C5: in every reachable state each Ticket references an existing
\* Registration (cancel and the cascades remove a ticket with its registration).
C5_TicketHasRegistration ==
    \A t \in tickets : \E r \in registrations : r.id = t.registration_id

\* a register request answered 200 has exactly one ticket row for its new
\* registration, carrying the code it returned, which no other row carries
SuccessfulRegisterHasOneTicket ==
    (IsDone(1, "register") /\ req[1].status = 200) =>
        /\ Cardinality({t \in tickets : t.registration_id = req[1].rid}) = 1
        /\ \A t \in tickets : t.code = req[1].code <=> t.registration_id = req[1].rid

\* a step never takes a ticket row away or changes its code, and the row it
\* adds has a code that no ticket row carried before the step
TicketCodesNeverReused ==
    /\ \A t \in tickets : \E n \in tickets' : n.id = t.id /\ n.code = t.code
    /\ \A n \in tickets' :
          (\A t \in tickets : t.id # n.id) => (\A t \in tickets : t.code # n.code)

\* C6: every register request that returns success has created exactly one
\* Ticket for the new registration, and that ticket's code differs from the
\* code of every ticket issued before it, cancelled registrations' included.
C6_OneTicketUniqueCode ==
    [](SuccessfulRegisterHasOneTicket) /\ [][TicketCodesNeverReused]_vars

\* a second successful register while the ticket of a cancelled registration
\* is still stored
C6_Witness ==
    /\ IsDone(1, "register") /\ req[1].status = 200
    /\ \E t \in tickets : t.registration_id = NULL /\ t.code # req[1].code

\* the rows a request made: the notifications with the last `made` ids
MadeNotifications(s) ==
    {n \in notifications : n.id >= nextId.notif - req[s].made}

\* C7: register(u, e), then cancel(u, e), then register(u, e): the second
\* register succeeds, cancellation leaves nothing behind that makes the pair
\* count as already registered.  (The register request right after the
\* successful cancel is never answered AlreadyRegistered or NotFound, it
\* creates the registration, and it is answered 200 unless the ticket step
\* itself breaks: the image cannot be written, or uuid4 repeats a code.)
C7_RegisterAfterCancel ==
    (IsDone(1, "register") /\ req[1].after = "cancel") =>
        /\ req[1].err \notin {"AlreadyRegisteredError", "EventNotFoundError",
                              "UserNotFoundError"}
        /\ RegsOf(req[1].uid, req[1].eid) =
               {[id |-> req[1].rid, user_id |-> req[1].uid, event_id |-> req[1].eid]}
        /\ req[1].status = 200 \/ req[1].err \in {"OSError", "IntegrityError"}

\* the register right after a successful cancel has been answered 200
C7_Witness ==
    /\ IsDone(1, "register") /\ req[1].after = "cancel"
    /\ req[1].status = 200
    /\ Cardinality(tickets) = 2

\* a cancel request that reaches its query while no registration of its pair
\* exists ends there with 404 and leaves every table alone
CancelWithoutRegistrationFails ==
    (req[1].op = "cancel" /\ req[1].pc = "can_delete"
        /\ RegsOf(req[1].uid, req[1].eid) = {})
    => /\ req'[1].pc = "done"
       /\ req'[1].status = 404
       /\ req'[1].made = 0
       /\ UNCHANGED db

\* a cancel right after a successful cancel of the same pair was answered 404
SecondCancelNotFound ==
    (IsDone(1, "cancel") /\ req[1].after = "cancel") =>
        req[1].status = 404 /\ req[1].made = 0 /\ req[1].rid = NULL

\* C8: cancel(u, e) when no registration for (u, e) exists, in particular a
\* second cancel right after a successful one, fails with 404 NotFound,
\* deletes nothing and creates no notification.
C8_CancelTwice ==
    [](SecondCancelNotFound) /\ [][CancelWithoutRegistrationFails]_vars

\* a second cancel was answered 404 while another user's registration for
\* the event is live and stays
C8_Witness ==
    /\ IsDone(1, "cancel") /\ req[1].after = "cancel" /\ req[1].status = 404
    /\ RegsOfEvent(req[1].eid) # {}

\* a register request that reaches crud.register_for_event for an event that
\* does not exist ends there with 404 and leaves every table alone
RegisterMissingEventFails ==
    (req[1].op = "register" /\ req[1].pc = "reg_check" /\ ~EventExists(req[1].eid))
    => /\ req'[1].pc = "done"
       /\ req'[1].status = 404
       /\ req'[1].err = "EventNotFoundError"
       /\ req'[1].rid = NULL /\ req'[1].code = NULL /\ req'[1].made = 0
       /\ UNCHANGED db

\* C9: register(u, e) for an event e that does not exist fails with 404
\* NotFound and creates no registration, no ticket and no notification.
C9_RegisterMissingEvent ==
    [][RegisterMissingEventFails]_vars

\* a register for an event that was deleted has been answered 404, with the
\* ticket of a registration the deletion took away still stored
C9_Witness ==
    /\ IsDone(1, "register") /\ req[1].status = 404
    /\ req[1].err = "EventNotFoundError"
    /\ ~EventExists(req[1].eid)
    /\ registrations = {} /\ notifications = {} /\ tickets # {}

\* C10: notify_event_participants on an event with N registrants, with
\* exclude_user_id set to one of them, creates exactly N-1 notifications, one
\* for each other registrant and none for the excluded user; this is what an
\* event update by the organizer produces.
C10_FanOutExcludesActor ==
    (IsDone(1, "update_event") /\ req[1].status = 200
        /\ RegsOf(req[1].uid, req[1].eid) # {}) =>
        LET new == MadeNotifications(1)
            regs == RegsOfEvent(req[1].eid)
        IN /\ req[1].made = Cardinality(regs) - 1
           /\ Cardinality(new) = req[1].made
           /\ \A n \in new : /\ n.title = "Event Updated"
                             /\ n.event_id = req[1].eid
                             /\ n.user_id # req[1].uid
           /\ \A r \in regs : r.user_id # req[1].uid =>
                 Cardinality({n \in new : n.user_id = r.user_id}) = 1

\* the organizer, registered for the own event with one more registrant,
\* updated the event: one notification, for the other registrant
C10_Witness ==
    /\ IsDone(1, "update_event") /\ req[1].status = 200
    /\ RegsOf(req[1].uid, req[1].eid) # {}
    /\ Cardinality(RegsOfEvent(req[1].eid)) = 2
    /\ req[1].made = 1

\* the rows of the notifications table that are unread and belong to user u
UnreadRows(u) == {n \in notifications : n.user_id = u /\ n.is_read = FALSE}

\* C11: in every state unreadCount(u) equals the number of notifications of
\* user u whose read flag is false, and immediately after markAllRead(u)
\* unreadCount(u) is 0.
C11_UnreadCount ==
    /\ (IsDone(1, "unread_count") /\ req[1].status = 200) =>
            req[1].out = <<Cardinality(UnreadRows(req[1].uid))>>
    /\ (IsDone(1, "read_all") /\ req[1].status = 200) =>
            UnreadRows(req[1].uid) = {}
    /\ (IsDone(1, "unread_count") /\ req[1].status = 200
            /\ req[1].after = "read_all") => req[1].out = <<0>>

\* a user with notifications marked them all read and then asked for the
\* count, which is 0 while another user still has an unread notification
C11_Witness ==
    /\ IsDone(1, "unread_count") /\ req[1].status = 200
    /\ req[1].after = "read_all"
    /\ req[1].out = <<0>>
    /\ Cardinality({n \in notifications : n.user_id = req[1].uid /\ n.is_read}) >= 2
    /\ \E n \in notifications : n.user_id # req[1].uid /\ ~n.is_read

\* the step of mark_notification_as_read: without a row of this id that
\* belongs to the caller it answers 404 and writes nothing; with one it sets
\* the row's read flag and leaves every other row alone
MarkReadStep ==
    (req[1].op = "mark_read" /\ req[1].pc = "mr_mark") =>
        LET own == {n \in notifications :
                        n.id = req[1].tgt /\ n.user_id = req[1].uid}
        IN /\ req'[1].pc = "done"
           /\ IF own = {}
              THEN /\ req'[1].status = 404
                   /\ notifications' = notifications
              ELSE /\ req'[1].status = 200
                   /\ \A n \in own : [n EXCEPT !.is_read = TRUE] \in notifications'
                   /\ \A n \in notifications \ own : n \in notifications'
                   /\ Cardinality(notifications') = Cardinality(notifications)

\* C12: markRead(n, u) for a notification n that does not exist or belongs
\* to a user other than u fails with 404 and leaves n's read flag unchanged;
\* for a notification that belongs to u it sets the read flag to true.
C12_MarkRead ==
    [][MarkReadStep]_vars

\* a user asked to mark another user's unread notification: 404, and the
\* notification is still unread
C12_Witness ==
    /\ IsDone(1, "mark_read") /\ req[1].status = 404
    /\ req[1].uid # NULL
    /\ \E n \in notifications :
            n.id = req[1].tgt /\ n.user_id # req[1].uid /\ ~n.is_read

\* C13: in every reachable state, after any sequence of user registrations
\* and admin change-role requests, every user's role is one of attendee,
\* organizer, admin.
C13_RolesInFixedSet ==
    \A u \in DOMAIN users : users[u].role \in Roles

\* a step changes the role of a stored user only as the write of a
\* change-role request whose caller is an admin at that moment
RoleChangesOnlyByAdmin ==
    \A u \in DOMAIN users \cap DOMAIN users' :
        users'[u].role # users[u].role =>
            /\ req[1].op = "change_role" /\ req[1].pc = "cr_set"
            /\ req[1].tgt = u
            /\ UserExists(req[1].uid)
            /\ users[req[1].uid].role = "admin"

\* a change-role request that arrives from a user who is not an admin is
\* answered 403 at once, and no table is written
NonAdminChangeRoleFails ==
    (req'[1].op = "change_role" /\ req'[1] # req[1] /\ req[1].pc = "done"
        /\ UserExists(req'[1].uid) /\ users[req'[1].uid].role # "admin")
    => /\ req'[1].pc = "done"
       /\ req'[1].status = 403
       /\ UNCHANGED db

\* C14: after a user is created, their role changes only through a
\* change-role request made by a caller whose current role is admin; a
\* change-role request by a non-admin fails with 403 and changes no role.
C14_RoleChangedOnlyByAdmin ==
    [][RoleChangesOnlyByAdmin /\ NonAdminChangeRoleFails]_vars

\* a user whose role an admin had changed asked for a role change and was
\* answered 403
C14_Witness ==
    /\ IsDone(1, "change_role") /\ req[1].status = 403
    /\ UserExists(req[1].uid)
    /\ users[req[1].uid].role = "superuser"
    /\ \E u \in DOMAIN users : users[u].role = "admin"

\* the first step of an update or delete through the event routes, for an
\* event that exists and whose organizer is not the caller, ends the request
\* with 403 UnauthorizedError, writes no table and makes no notification
NonOrganizerRejected ==
    (/\ req[1].op \in {"update_event", "delete_event"}
     /\ req[1].pc \in {"ue_update", "de_delete"}
     /\ EventExists(req[1].eid)
     /\ events[req[1].eid].organizer_id # req[1].uid)
    => /\ req'[1].pc = "done"
       /\ req'[1].status = 403
       /\ req'[1].err = "UnauthorizedError"
       /\ req'[1].made = 0
       /\ UNCHANGED db

\* C15: an update or delete of event e through the event routes by a user
\* who is not e's organizer (whatever their role) fails with Forbidden (HTTP
\* 403), leaves e and its registrations unchanged and sends no notification.
C15_NonOrganizerForbidden ==
    [][NonOrganizerRejected]_vars

\* an admin who is not the organizer asked the event route to delete an
\* event that has a registration, and was answered 403
C15_Witness ==
    /\ IsDone(1, "delete_event") /\ req[1].status = 403
    /\ UserExists(req[1].uid) /\ users[req[1].uid].role = "admin"
    /\ EventExists(req[1].eid)
    /\ events[req[1].eid].organizer_id \in DOMAIN users \ {req[1].uid}
    /\ RegsOfEvent(req[1].eid) # {}

\* a step adds an event row only as the insert of a create-event request
\* whose caller is an organizer or an admin at that moment
EventCreatedOnlyByOrganizerOrAdmin ==
    \A e \in DOMAIN events' \ DOMAIN events :
        /\ req[1].op = "create_event" /\ req[1].pc = "ce_insert"
        /\ UserExists(req[1].uid)
        /\ users[req[1].uid].role \in {"organizer", "admin"}
        /\ events'[e].organizer_id = req[1].uid

\* the first step of a create-event request whose caller has another role
\* ends it with 403 and writes no table
OtherRoleCreateEventFails ==
    (/\ req[1].op = "create_event" /\ req[1].pc = "ce_insert"
     /\ UserExists(req[1].uid)
     /\ users[req[1].uid].role \notin {"organizer", "admin"})
    => /\ req'[1].pc = "done"
       /\ req'[1].status = 403
       /\ req'[1].made = 0
       /\ UNCHANGED db

\* C16: an event is created only by a caller whose current role is organizer
\* or admin; a create-event request by an attendee fails with 403 and creates
\* neither an event nor a notification.
C16_CreateEventGatedByRole ==
    [][EventCreatedOnlyByOrganizerOrAdmin /\ OtherRoleCreateEventFails]_vars

\* an attendee asked to create an event: 403, no event, no notification
C16_Witness ==
    /\ IsDone(1, "create_event") /\ req[1].status = 403
    /\ UserExists(req[1].uid) /\ users[req[1].uid].role = "attendee"
    /\ DOMAIN events = {} /\ notifications = {}

\* C17: in every reachable state, including after an admin deletes users,
\* every event's organizer reference identifies an existing user.
C17_OrganizerExists ==
    \A e \in DOMAIN events : events[e].organizer_id \in DOMAIN users

\* every registration, comment and notification belongs to a stored user
RowsBelongToUsers ==
    /\ \A r \in registrations : UserExists(r.user_id)
    /\ \A c \in comments : UserExists(c.user_id)
    /\ \A n \in notifications : UserExists(n.user_id)

\* the delete step of an admin's delete-user request for a stored user u
\* removes u and exactly the registrations, comments and notifications of u
AdminDeleteUserCascades ==
    (req[1].op = "admin_delete_user" /\ req[1].pc = "adu_delete"
        /\ UserExists(req[1].tgt))
    => LET u == req[1].tgt IN
       /\ req'[1].pc = "done" /\ req'[1].status = 200
       /\ u \notin DOMAIN users'
       /\ registrations' = {r \in registrations : r.user_id # u}
       /\ comments' = {c \in comments : c.user_id # u}
       /\ notifications' = {n \in notifications : n.user_id # u}

\* C18: after an admin deletes user u, no registration, comment or
\* notification that references u remains, and the registrations, comments
\* and notifications of every other user are unchanged.
C18_UserDeleteCascades ==
    []RowsBelongToUsers /\ [][AdminDeleteUserCascades]_vars

\* an admin deleted the other user, who had commented on the event that is
\* still stored: the comment is gone, and a registration and notifications
\* of the admin are still there
C18_Witness ==
    /\ IsDone(1, "admin_delete_user") /\ req[1].status = 200
    /\ req[1].tgt # req[1].uid /\ UserExists(req[1].uid)
    /\ nextId.user = 3
    /\ nextId.comment = 2 /\ comments = {}
    /\ DOMAIN events # {}
    /\ registrations # {} /\ notifications # {}
    /\ \E t \in tickets : t.registration_id = NULL

\* every registration and comment, and every notification that names an
\* event, references a stored event
RowsBelongToEvents ==
    /\ \A r \in registrations : EventExists(r.event_id)
    /\ \A c \in comments : EventExists(c.event_id)
    /\ \A n \in notifications : n.event_id # NULL => EventExists(n.event_id)

\* the delete step of either delete-event route, when it deletes, removes the
\* event and every registration, comment and notification that references it
EventDeleteCascades ==
    (req[1].pc \in {"de_delete", "ade_delete"} /\ events' # events)
    => LET e == req[1].eid IN
       /\ req'[1].pc = "done" /\ req'[1].status = 200
       /\ e \notin DOMAIN events'
       /\ \A r \in registrations' : r.event_id # e
       /\ \A c \in comments' : c.event_id # e
       /\ \A n \in notifications' : n.event_id # e

\* the first step of a register or cancel request for an event that is not
\* stored ends it with 404 and writes no table
RegisterCancelMissingEvent ==
    (req[1].pc \in {"reg_check", "can_delete"} /\ ~EventExists(req[1].eid))
    => /\ req'[1].pc = "done"
       /\ req'[1].status = 404
       /\ UNCHANGED db

\* a lookup of an event that is not stored has been answered 404
LookupMissingEvent ==
    (IsDone(1, "get_event") /\ ~EventExists(req[1].eid)) => req[1].status = 404

\* C19: after event e is deleted (by its organizer or by an admin), no
\* registration, comment or notification that references e remains, and any
\* later lookup, register or cancel for e fails with NotFound.
C19_EventDeleteCascades ==
    /\ [](RowsBelongToEvents /\ LookupMissingEvent)
    /\ [][EventDeleteCascades /\ RegisterCancelMissingEvent]_vars

\* the event was deleted while both users were stored, with a comment and a
\* registration made for it before; its lookup is answered 404
C19_Witness ==
    /\ IsDone(1, "get_event") /\ req[1].status = 404
    /\ req[1].eid < nextId.event
    /\ Cardinality(DOMAIN users) = 2
    /\ nextId.comment = 2 /\ comments = {}
    /\ nextId.reg > 1 /\ registrations = {}
    /\ nextId.notif > 2 /\ notifications = {}
    /\ \E t \in tickets : t.registration_id = NULL

\* the list answered to the organizer has one entry per registration of the
\* event, each with the registrant's id and the code of the ticket row that
\* points at the registration
AttendeeListMatches ==
    (IsDone(1, "attendees") /\ req[1].status = 200) =>
        LET out == req[1].out  regs == RegsOfEvent(req[1].eid) IN
        /\ Len(out) = Cardinality(regs)
        /\ \A reg \in regs :
              /\ Cardinality({i \in 1..Len(out) : out[i].id = reg.user_id}) = 1
              /\ \A i \in 1..Len(out) : out[i].id = reg.user_id =>
                    \A t \in tickets : t.registration_id = reg.id =>
                        out[i].ticket = t.code

\* a request for the list of a stored event by a user who is not its
\* organizer has been answered 403, and only the organizer is answered 200
AttendeeListOrganizerOnly ==
    (IsDone(1, "attendees") /\ UserExists(req[1].uid) /\ EventExists(req[1].eid)) =>
        IF events[req[1].eid].organizer_id = req[1].uid
        THEN req[1].status = 200
        ELSE req[1].status = 403 /\ req[1].out = <<>>

\* C20: the attendee list that the organizer of event e requests has exactly
\* one entry per live registration for e, each entry carrying the code of the
\* ticket issued for that registration; a request by any user other than e's
\* organizer fails with 403.
C20_AttendeeList ==
    AttendeeListMatches /\ AttendeeListOrganizerOnly

\* the organizer was answered a list of two entries with two different
\* ticket codes
C20_Witness ==
    /\ IsDone(1, "attendees") /\ req[1].status = 200
    /\ Len(req[1].out) = 2
    /\ req[1].out[1].ticket # NULL /\ req[1].out[2].ticket # NULL
    /\ req[1].out[1].ticket # req[1].out[2].ticket
    /\ req[1].out[1].id # req[1].out[2].id

\* no two user rows hold the same e-mail
EmailsUnique ==
    \A u1 \in DOMAIN users, u2 \in DOMAIN users :
        users[u1].email = users[u2].email => u1 = u2

\* a sign-up statement that runs while a user row holds the request's e-mail
\* ends the request with 409 and adds no user
DuplicateEmailRejected ==
    \A s \in Slots :
        (req[s].op = "create_user" /\ req[s].pc \in {"cu_check", "cu_insert"}
            /\ req'[s] # req[s]
            /\ \E u \in DOMAIN users : users[u].email = req[s].email)
        => /\ req'[s].pc = "done"
           /\ req'[s].status = 409
           /\ req'[s].err = "UserAlreadyExistsError"
           /\ users' = users

\* C21: no two users ever have the same email: a user registration with an
\* email that already exists fails with Conflict (HTTP 409) and creates no
\* user, also when two registrations with the same email run concurrently.
C21_EmailUnique ==
    []EmailsUnique /\ [][DuplicateEmailRejected]_vars

\* two sign-ups with one e-mail overlapped: one was answered 200, the other
\* 409, and one user row holds the e-mail
C21_Witness ==
    /\ IsDone(1, "create_user") /\ IsDone(2, "create_user")
    /\ req[1].email = req[2].email
    /\ {req[1].status, req[2].status} = {200, 409}
    /\ Cardinality(get_user_by_email(req[1].email)) = 1

\* a step removes a comment only as the delete of a delete-comment request
\* for it whose caller is its author or is an admin at that moment
CommentDeletedByAuthorOrAdmin ==
    \A c \in comments \ comments' :
        /\ req[1].op = "delete_comment" /\ req[1].pc = "dc_delete"
        /\ req[1].tgt = c.id
        /\ UserExists(req[1].uid)
        /\ c.user_id = req[1].uid \/ users[req[1].uid].role = "admin"

\* the step of a delete-comment request for a stored comment whose caller is
\* neither its author nor an admin ends it with 403 and writes no table
OtherUserDeleteCommentFails ==
    (/\ req[1].op = "delete_comment" /\ req[1].pc = "dc_delete"
     /\ UserExists(req[1].uid) /\ users[req[1].uid].role # "admin"
     /\ \E c \in comments : c.id = req[1].tgt /\ c.user_id # req[1].uid)
    => /\ req'[1].pc = "done"
       /\ req'[1].status = 403
       /\ UNCHANGED db

Rank(pc) ==
    CASE pc = "reg_check" -> 1
      [] pc = "reg_insert" -> 2
      [] pc = "reg_ticket" -> 3
      [] pc = "reg_qr" -> 4
      [] pc = "reg_notify_user" -> 5
      [] pc = "reg_notify_org" -> 6
      [] OTHER -> 7

\* every step of a register request either ends it or moves it to the next
\* statement of the order; each table is written by its own statement only;
\* a statement that fails writes nothing and ends the request; and the 200
\* answer follows the last statement
RegisterStepsInOrder ==
    (req[1].op = "register" /\ req[1].pc # "done" /\ req'[1] # req[1]) =>
        /\ req'[1].op = "register"
        /\ req'[1].pc = "done" \/ Rank(req'[1].pc) = Rank(req[1].pc) + 1
        /\ registrations' # registrations => req[1].pc = "reg_insert"
        /\ tickets' # tickets => req[1].pc = "reg_ticket"
        /\ files' # files => req[1].pc = "reg_qr"
        /\ notifications' # notifications =>
                req[1].pc \in {"reg_notify_user", "reg_notify_org"}
        /\ (req'[1].pc = "done" /\ req'[1].status # 200) => UNCHANGED db
        /\ (req'[1].pc = "done" /\ req'[1].status = 200) => req[1].pc = "reg_notify_org"

\* a register request that has written a notification has its registration,
\* its ticket and the ticket's image stored
NotifiedAfterCommit ==
    (req[1].op = "register" /\ req[1].made > 0) =>
        /\ \E reg \in registrations : reg.id = req[1].rid
        /\ \E t \in tickets :
              t.registration_id = req[1].rid /\ t.code = req[1].code
        /\ req[1].code \in files

\* C23: within a register request the steps occur in the order event check,
\* duplicate check, registration created, ticket issued, artifact generated,
\* notifications sent: no registration notification is written before the
\* registration and its ticket are committed, and a failing step prevents
\* every later step.
C23_RegisterStepOrder ==
    []NotifiedAfterCommit /\ [][RegisterStepsInOrder]_vars

\* the image of the ticket could not be written: the registration and the
\* ticket are stored and the request ended without any notification
C23_Witness ==
    /\ IsDone(1, "register") /\ req[1].err = "OSError"
    /\ \E reg \in registrations : reg.id = req[1].rid
    /\ \E t \in tickets : t.registration_id = req[1].rid
    /\ req[1].made = 0

\* C24: a successful register of user u for event e creates exactly two
\* notifications, both unread and both referencing e: one addressed to u and
\* one addressed to e's organizer.
C24_RegisterTwoNotifications ==
    (IsDone(1, "register") /\ req[1].status = 200) =>
        LET new == MadeNotifications(1) IN
        /\ req[1].made = 2
        /\ Cardinality(new) = 2
        /\ \A n \in new : n.is_read = FALSE /\ n.event_id = req[1].eid
        /\ \E n \in new :
              n.user_id = req[1].uid /\ n.title = "Registration Successful"
        /\ \E n \in new :
              /\ n.user_id = events[req[1].eid].organizer_id
              /\ n.title = "New Registration"

\* a user registered for another user's event: one new notification for
\* each of the two
C24_Witness ==
    /\ IsDone(1, "register") /\ req[1].status = 200
    /\ events[req[1].eid].organizer_id # req[1].uid
    /\ \E n \in MadeNotifications(1) : n.user_id = req[1].uid
    /\ \E n \in MadeNotifications(1) : n.user_id = events[req[1].eid].organizer_id

\* C25: cancel(u, e) with a live registration deletes the registration and
\* then notifies the cancelling user and the event organizer on a best-effort
\* basis: the cancellation is reported as successful even if one of those
\* notifications cannot be written.
C25_CancelBestEffort ==
    (IsDone(1, "cancel") /\ req[1].rid # NULL) => req[1].status = 200

\* notification ids are primary keys
NotificationIdsUnique ==
    \A n \in notifications, m \in notifications : n.id = m.id => n = m

\* across every step a stored notification keeps its title, recipient and
\* event reference, a read one stays read, and one that is gone went with the
\* user or the event that the step deleted
NotificationStable ==
    \A n \in notifications :
        LET kept == {m \in notifications' : m.id = n.id} IN
        IF kept = {}
        THEN \/ /\ req[1].pc = "adu_delete"
                /\ n.user_id = req[1].tgt /\ req[1].tgt \notin DOMAIN users'
             \/ /\ req[1].pc \in {"de_delete", "ade_delete"}
                /\ n.event_id = req[1].eid /\ req[1].eid \notin DOMAIN events'
        ELSE \A m \in kept :
                /\ m.title = n.title
                /\ m.user_id = n.user_id
                /\ m.event_id = n.event_id
                /\ n.is_read => m.is_read

\* C26: once a notification exists, no operation changes its title, message,
\* recipient or event reference, and its read flag only ever goes from false
\* to true (never back to false); it disappears only by cascade from deletion
\* of its user or event.
C26_NotificationImmutable ==
    []NotificationIdsUnique /\ [][NotificationStable]_vars

\* a user marked a notification that was read already: it is still read,
\* while another notification of the user is unread
C26_Witness ==
    /\ IsDone(1, "mark_read") /\ req[1].status = 200
    /\ req[1].after \in {"mark_read", "read_all"}
    /\ \E n \in notifications :
          n.id = req[1].tgt /\ n.user_id = req[1].uid /\ n.is_read
    /\ \E n \in notifications : n.user_id = req[1].uid /\ ~n.is_read

\* the request r has no token, a token that does not verify, or a token
\* whose e-mail no stored user has
Unauthenticated(r) ==
    \/ r.tok \in {"absent", "invalid"}
    \/ r.tok = "valid" /\ (r.email = NULL \/ get_user_by_email(r.email) = {})

\* the step in which such a request arrives at a protected route answers it
\* 401 and writes no table
UnauthenticatedRejected ==
    (req[1].pc = "done" /\ req'[1] # req[1] /\ req'[1].tok # "none"
        /\ Unauthenticated(req'[1]))
    => /\ req'[1].pc = "done"
       /\ req'[1].status = 401
       /\ req'[1].uid = NULL
       /\ UNCHANGED db

\* a request that runs a statement of a protected handler came with a token
\* that verifies and names a user
RunningIsAuthenticated ==
    (req[1].op \in ProtectedOps /\ req[1].pc # "done") =>
        req[1].tok = "valid" /\ req[1].uid # NULL

\* C27: a request to a protected operation that carries no token, an invalid
\* token, or a token whose identity does not match an existing user (for
\* example a user deleted after the token was issued) is rejected with 401
\* and changes no state.
C27_UnauthenticatedRejected ==
    []RunningIsAuthenticated /\ [][UnauthenticatedRejected]_vars

\* the first user signed up with e-mail 1 and was deleted; a request with
\* the token of that e-mail was answered 401
C27_Witness ==
    /\ req[1].op \in ProtectedOps /\ req[1].pc = "done" /\ req[1].status = 401
    /\ req[1].tok = "valid" /\ req[1].email = 1
    /\ nextId.user > 1 /\ get_user_by_email(1) = {}
    /\ DOMAIN users # {}

\* the role a running request is authorized with is the role stored for its
\* caller
RoleIsCurrent ==
    (req[1].op \in ProtectedOps /\ req[1].pc # "done") =>
        UserExists(req[1].uid) /\ req[1].role = users[req[1].uid].role

\* the first step of a create-event request is answered 403 exactly when the
\* role stored for the caller is neither organizer nor admin
CreateEventByStoredRole ==
    (req[1].op = "create_event" /\ req[1].pc = "ce_insert") =>
        (req'[1].status = 403) = (users[req[1].uid].role \notin {"organizer", "admin"})

\* a request that arrives at an admin route from a stored user is answered
\* 403 exactly when the role stored for that user is not admin
AdminRouteByStoredRole ==
    (req[1].pc = "done" /\ req'[1] # req[1] /\ req'[1].op \in AdminOps
        /\ req'[1].uid # NULL)
    => (req'[1].status = 403) = (users[req'[1].uid].role # "admin")

\* C28: authorization uses the role stored for the user at the time of each
\* request, not the role held when the token was issued: after an admin
\* changes u's role from organizer to attendee, u's next create-event request
\* with the same token fails with 403, and after a change to admin, u's next
\* admin request succeeds.
C28_AuthorizationUsesStoredRole ==
    []RoleIsCurrent /\ [][CreateEventByStoredRole /\ AdminRouteByStoredRole]_vars

\* a user who signed up as organizer and is an attendee now asked to create
\* an event and was answered 403
C28_Witness ==
    /\ IsDone(1, "create_event") /\ req[1].status = 403
    /\ UserExists(req[1].uid)
    /\ users[req[1].uid].signup_role = "organizer"
    /\ users[req[1].uid].role = "attendee"

\* the write of a mark-read or read-all request leaves every notification of
\* every other user as it is, and with it the unread count of every other user
MarkingTouchesOwnOnly ==
    (req[1].op \in {"mark_read", "read_all"} /\ req[1].pc \in {"mr_mark", "ra_mark"}) =>
        /\ \A n \in notifications : n.user_id # req[1].uid => n \in notifications'
        /\ \A n \in notifications' : n.user_id # req[1].uid => n \in notifications
        /\ \A u \in DOMAIN users \ {req[1].uid} :
              Cardinality({n \in notifications' : n.user_id = u /\ ~n.is_read})
                = Cardinality({n \in notifications : n.user_id = u /\ ~n.is_read})

\* C29: markRead and markAllRead issued by user u change the read flag of
\* u's notifications only: the read flags and the unread count of every other
\* user are the same before and after.
C29_MarkingFrame ==
    [][MarkingTouchesOwnOnly]_vars

\* a user marked all notifications read: the user's own are read and two of
\* another user are still unread
C29_Witness ==
    /\ IsDone(1, "read_all") /\ req[1].status = 200
    /\ \E n \in notifications : n.user_id = req[1].uid /\ n.is_read
    /\ Cardinality({n \in notifications : n.user_id # req[1].uid /\ ~n.is_read}) >= 2

\* a register request is answered AlreadyRegisteredError only by its duplicate
\* check, and that step leaves registrations, tickets and notifications as
\* they were
DuplicateAnswerWritesNothing ==
    (req[1].op = "register" /\ req[1].pc # "done"
        /\ req'[1].err = "AlreadyRegisteredError")
    => /\ req[1].pc = "reg_check"
       /\ req'[1].status = 409
       /\ registrations' = registrations
       /\ tickets' = tickets
       /\ notifications' = notifications

\* a register request whose pair has a registration gets no further than the
\* duplicate check: it never reaches a statement that writes
DuplicateNeverWrites ==
    (req[1].op = "register" /\ req[1].pc = "reg_check"
        /\ UserExists(req[1].uid) /\ EventExists(req[1].eid)
        /\ RegsOf(req[1].uid, req[1].eid) # {})
    => req'[1].pc = "done" /\ req'[1].err = "AlreadyRegisteredError"

\* what a register request that was answered as a duplicate has made: nothing
DuplicateMadeNothing ==
    (IsDone(1, "register") /\ req[1].err = "AlreadyRegisteredError") =>
        req[1].rid = NULL /\ req[1].code = NULL /\ req[1].made = 0

\* C30: a register request rejected as a duplicate (409) leaves the set of
\* registrations, the set of tickets and every user's notifications exactly
\* as they were before the request.
C30_DuplicateRegisterFrame ==
    /\ []DuplicateMadeNothing
    /\ [][DuplicateAnswerWritesNothing /\ DuplicateNeverWrites]_vars

\* a register request was rejected as a duplicate while the pair has one
\* registration with one ticket and the two notifications of the first
\* register are the newest ones
C30_Witness ==
    /\ IsDone(1, "register") /\ req[1].status = 409
    /\ req[1].err = "AlreadyRegisteredError"
    /\ Cardinality(RegsOf(req[1].uid, req[1].eid)) = 1
    /\ \A reg \in RegsOf(req[1].uid, req[1].eid) : Cardinality(TicketOf(reg)) = 1
    /\ \E n \in notifications : n.id = nextId.notif - 1 /\ n.title = "New Registration"

====
